---- MODULE Spec2Model ----
(***************************************************************************)
(* Weather simulation: a planet's season state, the PeriodicController     *)
(* and RainController worker threads, the planet's report() operation,     *)
(* the region normalisation arrange(), the controller factory, the         *)
(* planet loader, the DataReader thread with its queries, shutdown() of a  *)
(* controller chain, GetZone and getTemperatureAsString.                   *)
(*                                                                         *)
(* Threads are modelled at the granularity of the statements that touch    *)
(* shared state (attribute reads and writes are atomic under the GIL).     *)
(***************************************************************************)
EXTENDS Integers, Sequences, FiniteSets, TLC

(***************************************************************************)
(* Bounds of the model.                                                    *)
(***************************************************************************)
\* Largest number of zones of a planet.
MaxZones == 2
\* Largest revolution period of a planet.
MaxPeriod == 4
\* Loop iterations a PeriodicController performs at most.
MaxTicks == 4
\* Loop iterations a RainController performs at most.
MaxRainTicks == 2
\* Upper end of random.randint(1, 10), the number of rain regions of a tick.
MaxRainRegions == 2
\* report() calls the driver makes at most.
MaxReports == 1
\* Largest coordinate of the points arrange() is applied to.
MaxCoord == 2
\* Longest weather_decorators list given to the factory.
MaxDecorators == 3
\* Largest number of entries of all_data['planets'].
MaxPlanets == 2
\* Queries a caller makes through data_reader.GetAllData at most.
MaxQueries == 2
\* Largest latitude, north and south, of the zones and locations GetZone is
\* applied to.
MaxLatitude == 2
\* Largest temperature, above and below zero, getTemperatureAsString is
\* applied to, in 32nds of a degree.
MaxTemperature == 48
\* Threads that make their first data_reader call concurrently.
MaxCallers == 2

(***************************************************************************)
(* Values.                                                                 *)
(***************************************************************************)
\* Python's None for a string-valued attribute.
None == "None"
\* Python's None for a numeric attribute is the empty tuple, a set value v
\* is <<v>>.
Unset == <<>>

\* controllers.py: the range of longitudes rain is sampled from.
_LONGITUDE_RANGE == <<0, 0>>

Range(s) == {s[i] : i \in DOMAIN s}

Min(S) == CHOOSE m \in S : \A x \in S : m <= x
Max(S) == CHOOSE m \in S : \A x \in S : x <= m

(***************************************************************************)
(* location.py                                                             *)
(***************************************************************************)
\* Location(latitude, longitude): the attributes __init__ leaves unset.
Location(latitude, longitude) ==
  [latitude |-> latitude, longitude |-> longitude,
   temperature |-> Unset, pressure |-> Unset, humidity |-> Unset,
   season |-> None]

\* Location.setSeason: the label stored for a season string.
setSeasonKeep(season) == season
setSeason(season) ==
  IF season = "summer" THEN "Sunny"
  ELSE IF season = "winter" THEN "Snow"
  ELSE IF season = "rain" THEN "Rain"
  ELSE season

\* A temperature is a whole number of 32nds of a degree, which a float
\* holds exactly; kind tells an int from a float.
TemperatureScale == 32
Temperature(kind, units) == [kind |-> kind, units |-> units]

\* A string of getTemperatureAsString: 'None', or a number with its sign
\* character, its magnitude in tenths and its count of fraction digits.
NoneString == [text |-> "None", sign |-> "", tenths |-> 0, digits |-> 0]
NumberString(sign, tenths, digits) ==
  [text |-> "number", sign |-> sign, tenths |-> tenths, digits |-> digits]

Abs(n) == IF n < 0 THEN -n ELSE n

\* n / d rounded to the nearest integer, a tie to the even one: the
\* rounding of '%.1f' on a value the float holds exactly.
RoundHalfEven(n, d) ==
  LET q == n \div d
      r == n % d
  IN IF 2 * r < d THEN q
     ELSE IF 2 * r > d THEN q + 1
     ELSE IF q % 2 = 0 THEN q ELSE q + 1

\* '%.1f' % temperature
FormatOneDigit(temperature) ==
  NumberString(IF temperature.units < 0 THEN "-" ELSE "",
               RoundHalfEven(Abs(temperature.units) * 10, TemperatureScale), 1)

\* str(temperature) of a temperature that is false in a condition: None,
\* the int 0 or the float 0.0.
Str(temperature) ==
  IF temperature = Unset THEN NoneString
  ELSE IF temperature[1].kind = "int" THEN NumberString("", 0, 0)
  ELSE NumberString("", 0, 1)

\* Location.getTemperatureAsString
getTemperatureAsString(temperature) ==
  IF temperature # Unset /\ temperature[1].units # 0
    THEN LET formatted == FormatOneDigit(temperature[1])
         IN IF formatted.sign = "" /\ formatted.tenths > 0
              THEN [formatted EXCEPT !.sign = "+"]
              ELSE formatted
    ELSE Str(temperature)

(***************************************************************************)
(* controllers.py: arrange                                                 *)
(***************************************************************************)
Point(latitude, longitude) == [latitude |-> latitude, longitude |-> longitude]

\* arrange with the first branch's corner swap left out.
arrangeNoSwap(location_a, location_b) ==
  IF location_a.latitude < location_b.latitude
    THEN <<location_a, location_b>>
  ELSE IF location_a.latitude = location_b.latitude
    THEN IF location_b.longitude < location_a.longitude
           THEN <<Point(location_a.latitude, location_b.longitude),
                  Point(location_b.latitude, location_a.longitude)>>
           ELSE <<location_a, location_b>>
  ELSE IF location_a.longitude < location_b.longitude
         THEN <<Point(location_b.latitude, location_a.longitude),
                Point(location_a.latitude, location_b.longitude)>>
         ELSE <<location_b, location_a>>

\* arrange with the last branch returning its arguments in call order.
arrangeCallOrder(location_a, location_b) ==
  IF location_a.latitude < location_b.latitude
    THEN IF location_b.longitude < location_a.longitude
           THEN <<Point(location_a.latitude, location_b.longitude),
                  Point(location_b.latitude, location_a.longitude)>>
           ELSE <<location_a, location_b>>
  ELSE IF location_a.latitude = location_b.latitude
    THEN IF location_b.longitude < location_a.longitude
           THEN <<Point(location_a.latitude, location_b.longitude),
                  Point(location_b.latitude, location_a.longitude)>>
           ELSE <<location_a, location_b>>
  ELSE IF location_a.longitude < location_b.longitude
         THEN <<Point(location_b.latitude, location_a.longitude),
                Point(location_a.latitude, location_b.longitude)>>
         ELSE <<location_a, location_b>>

arrange(location_a, location_b) ==
  IF location_a.latitude < location_b.latitude
    THEN IF location_b.longitude < location_a.longitude
           THEN <<Point(location_a.latitude, location_b.longitude),
                  Point(location_b.latitude, location_a.longitude)>>
           ELSE <<location_a, location_b>>
  ELSE IF location_a.latitude = location_b.latitude
    THEN IF location_b.longitude < location_a.longitude
           THEN <<Point(location_a.latitude, location_b.longitude),
                  Point(location_b.latitude, location_a.longitude)>>
           ELSE <<location_a, location_b>>
  ELSE IF location_a.longitude < location_b.longitude
         THEN <<Point(location_b.latitude, location_a.longitude),
                Point(location_a.latitude, location_b.longitude)>>
         ELSE <<location_b, location_a>>

(***************************************************************************)
(* controllers.py: createWeatherController                                 *)
(***************************************************************************)
\* The value of a function that falls off its end without a return.
NoController == [class |-> "None"]

createBaseController(base_weather) ==
  IF base_weather = "periodic"
    THEN [class |-> "PeriodicController"]
    ELSE NoController

createWeatherDecorator(decorator, base_controller) ==
  IF decorator = "rain"
    THEN [class |-> "RainController", _base_controller |-> base_controller]
    ELSE NoController


\* createWeatherController as one call: the base controller wrapped by the
\* result of createWeatherDecorator for each of the first n decorators.
RECURSIVE DecoratedController(_, _, _)
DecoratedController(base_weather, weather_decorators, n) ==
  IF n = 0 THEN createBaseController(base_weather)
  ELSE createWeatherDecorator(
         weather_decorators[n],
         DecoratedController(base_weather, weather_decorators, n - 1))

createWeatherController(base_weather, weather_decorators) ==
  DecoratedController(base_weather, weather_decorators, Len(weather_decorators))

\* addPlanet on a chain returns normally: Controller.addPlanet on a
\* PeriodicController, WeatherControllerDecorator.addPlanet when the wrapped
\* controller's addPlanet does; on None it raises AttributeError.
RECURSIVE CanAddPlanet(_)
CanAddPlanet(controller) ==
  \/ controller.class = "PeriodicController"
  \/ /\ controller.class = "RainController"
     /\ CanAddPlanet(controller._base_controller)

\* The classes of the controllers of a chain, outermost first; "None"
\* where createBaseController or createWeatherDecorator returned nothing.
RECURSIVE ChainClasses(_)
ChainClasses(controller) ==
  IF controller.class = "RainController"
    THEN <<"RainController">> \o ChainClasses(controller._base_controller)
    ELSE <<controller.class>>

\* self._planets.add(planet) leaving the set as it is.
PlanetsAddNothing(planets, planet) == planets

\* self._planets.add(planet)
PlanetsAdd(planets, planet) == planets \cup {planet}

(***************************************************************************)
(* The configuration of one planet (its entry of all_data.json) and the    *)
(* queries of data_reader.py over it.                                      *)
(***************************************************************************)
\* The zones of a planet with n zones; zone k stands for the k-th zone name
\* in sorted order, its value is the zone's latitude range.
ZoneRanges(n) ==
  [k \in 1..n |-> IF n = 1 THEN <<0, 1>> ELSE <<(k - 1) % 2, (k - 1) % 2>>]

\* The locations of the planet, by location id.
PlanetLocations == <<Location(0, 0), Location(1, -1)>>

\* zone_data: the range of every metric, by season.
ZoneData ==
  [season \in {"summer", "winter", "rain"} |->
     IF season = "summer"
       THEN [temperature |-> <<3, 3>>, pressure |-> <<2, 2>>, humidity |-> <<1, 1>>]
     ELSE IF season = "winter"
       THEN [temperature |-> <<1, 1>>, pressure |-> <<1, 1>>, humidity |-> <<2, 2>>]
     ELSE [temperature |-> <<2, 2>>, pressure |-> <<2, 2>>, humidity |-> <<3, 3>>]]

\* all_data.json as the DataReader finds it: unreadable, or readable with
\* the planet's revolution_period (Unset: the key is missing).
Unreadable == [readable |-> FALSE, revolution_period |-> Unset]
Readable(revolution_period) ==
  [readable |-> TRUE, revolution_period |-> revolution_period]
Sources ==
  {Unreadable} \cup {Readable(Unset)} \cup {Readable(<<p>>) : p \in 0..MaxPeriod}

\* The entries with the given numbers of zones, revolution periods,
\* decorator lists and rain zones (those of them the planet has).
PlanetConfigs(zone_counts, periods, decorator_lists, rain_zone_sets) ==
  {[zones |-> ZoneRanges(n), rain_zones |-> r \cap 1..n,
    revolution_period |-> <<p>>, weather_decorators |-> d,
    missing |-> {}] :
     n \in zone_counts, p \in periods, d \in decorator_lists,
     r \in rain_zone_sets}

\* Three zones of one latitude each, in sorted order of their names.
BandZones == <<<<0, 0>>, <<1, 1>>, <<2, 2>>>>

\* Rain-decorated entries over BandZones with the given rain zones.
BandConfigs(rain_zone_sets) ==
  {[zones |-> BandZones, rain_zones |-> r, revolution_period |-> <<2>>,
    weather_decorators |-> <<"rain">>, missing |-> {}] :
     r \in rain_zone_sets}

\* The <<season, metric>> pairs zone_data can lack a range for.
RangeKeys ==
  {<<season, metric>> : season \in {"summer", "winter"},
                        metric \in {"temperature", "pressure", "humidity"}}

\* Entries without decorators that report() can fail on: zones that leave
\* a location's latitude uncovered, or zone_data that lacks one range.
FaultyConfigs(periods) ==
  {[zones |-> z, rain_zones |-> {}, revolution_period |-> <<p>>,
    weather_decorators |-> <<>>, missing |-> m] :
     z \in {ZoneRanges(2), <<<<0, 0>>>>, <<<<1, 1>>>>}, p \in periods,
     m \in {{}} \cup {{k} : k \in RangeKeys}}

\* data_reader.GetPeriod: the default of planet_data.get.
DefaultPeriod == 12

\* data_reader.GetPeriod; the entry's revolution_period is Unset when the
\* entry has no such key.
GetPeriod(pd) ==
  IF pd.revolution_period = Unset THEN DefaultPeriod ELSE pd.revolution_period[1]

\* data_reader.GetRainZones
GetRainZones(pd) == pd.rain_zones

\* data_reader.GetZone: the zones the iteration over the zones dict can
\* return for a location (the dict's order decides which); empty when the
\* call raises DataReaderError.
GetZone(location, pd) ==
  {z \in DOMAIN pd.zones :
     IF location.latitude >= 0
       THEN pd.zones[z][1] <= location.latitude /\ location.latitude <= pd.zones[z][2]
       ELSE pd.zones[z][1] >= location.latitude /\ location.latitude >= pd.zones[z][2]}

\* data_reader.GetTemperatureRange, GetPressureRange, GetHumidityRange:
\* the range of the metric, Unset when zone_data has none (tuple(None)
\* raises TypeError).
GetTemperatureRange(pd, zone, season) ==
  IF <<season, "temperature">> \in pd.missing
    THEN Unset ELSE ZoneData[season].temperature
GetPressureRange(pd, zone, season) ==
  IF <<season, "pressure">> \in pd.missing
    THEN Unset ELSE ZoneData[season].pressure
GetHumidityRange(pd, zone, season) ==
  IF <<season, "humidity">> \in pd.missing
    THEN Unset ELSE ZoneData[season].humidity

\* controllers.getAllowedRainLatitudes: the latitudes of the rain zones;
\* min() of the empty list raises ValueError.
RainLatitudes(pd) ==
  UNION {{pd.zones[k][1], pd.zones[k][2]} : k \in DOMAIN pd.zones \cap GetRainZones(pd)}
getAllowedRainLatitudes(pd) == <<Min(RainLatitudes(pd)), Max(RainLatitudes(pd))>>

(***************************************************************************)
(* planets.py                                                              *)
(***************************************************************************)
\* PeriodicWeatherPlanet.__init__: the sorted zone names and their split.
AllZones(pd) == [k \in 1..Len(pd.zones) |-> k]
Mid(pd) == Len(pd.zones) \div 2
InitSummerZones(pd) == SubSeq(AllZones(pd), 1, Mid(pd))
InitWinterZones(pd) == SubSeq(AllZones(pd), Mid(pd) + 1, Len(pd.zones))

\* The value createPlanet returns without a return statement.
NoPlanet == [class |-> "None"]

\* createPlanet returning a planet for every base_weather the entry has.
createPlanetAnyWeather(entry) ==
  IF entry.base_weather # None
    THEN [class |-> "PeriodicWeatherPlanet", planet_data |-> entry]
    ELSE NoPlanet

\* createPlanet: entry.get('base_weather') is None when the key is missing.
createPlanet(entry) ==
  IF entry.base_weather = "periodic"
    THEN [class |-> "PeriodicWeatherPlanet", planet_data |-> entry]
    ELSE NoPlanet

\* Planet.getLocations: the location ids from the largest longitude to the
\* smallest.
getLocations(locs) ==
  CHOOSE s \in [1..Len(locs) -> 1..Len(locs)] :
    /\ \A i, j \in 1..Len(locs) : i # j => s[i] # s[j]
    /\ \A i, j \in 1..Len(locs) :
         i < j => locs[s[i]].longitude >= locs[s[j]].longitude

\* report() lines 107-110 for one location: the attributes are assigned in
\* the order temperature, pressure, humidity, season; a range lookup that
\* raises leaves the attributes assigned before it.
ReportOutcomes(location, season, t, p, h) ==
  IF t = Unset
    THEN {[location |-> location, raised |-> TRUE]}
  ELSE IF p = Unset
    THEN {[location |-> [location EXCEPT !.temperature = <<temperature>>],
           raised |-> TRUE] : temperature \in t[1]..t[2]}
  ELSE IF h = Unset
    THEN {[location |-> [location EXCEPT !.temperature = <<temperature>>,
                                         !.pressure = <<pressure>>],
           raised |-> TRUE] :
            temperature \in t[1]..t[2], pressure \in p[1]..p[2]}
  ELSE {[location |-> [location EXCEPT !.temperature = <<temperature>>,
                                       !.pressure = <<pressure>>,
                                       !.humidity = <<humidity>>,
                                       !.season = setSeason(season)],
         raised |-> FALSE] :
          temperature \in t[1]..t[2], pressure \in p[1]..p[2],
          humidity \in h[1]..h[2]}

\* The assignments of report() reaching every location of the planet.
StoreLocationInAll(locations, id, location) ==
  [i \in DOMAIN locations |-> location]

\* The assignments of report() reach the Location object of the loop
\* variable and no other.
StoreLocation(locations, id, location) ==
  [locations EXCEPT ![id] = location]

\* report(): the rain test of a location against one region, with one edge
\* exclusive.
RegionContainsStrict(region, location) ==
  /\ region[1].latitude <= location.latitude
  /\ location.latitude < region[2].latitude
  /\ region[1].longitude <= location.longitude
  /\ location.longitude <= region[2].longitude

\* report(): the rain test of a location against one region.
RegionContains(region, location) ==
  /\ region[1].latitude <= location.latitude
  /\ location.latitude <= region[2].latitude
  /\ region[1].longitude <= location.longitude
  /\ location.longitude <= region[2].longitude

\* report() testing each location against the list published at that
\* moment.
TestedRegionsPublished(decorated, published) == published

\* report() line 93: every location is tested against decorated_locations,
\* the list line 90 built before the loop.
TestedRegions(decorated, published) == decorated

\* report(): the season of a location with summer membership decided
\* before the rain regions.
ResolveSeasonSummerFirst(regions, location, zone, summer_zones) ==
  IF zone \in Range(summer_zones) THEN "summer"
  ELSE IF \E i \in DOMAIN regions : RegionContains(regions[i].region, location)
    THEN "rain"
  ELSE "winter"

\* report(): the season of a location, the for/else over the regions.
ResolveSeason(regions, location, zone, summer_zones) ==
  IF \E i \in DOMAIN regions : RegionContains(regions[i].region, location)
    THEN "rain"
  ELSE IF zone \in Range(summer_zones) THEN "summer"
  ELSE "winter"

(***************************************************************************)
(* State.                                                                  *)
(***************************************************************************)
VARIABLES
  planet_data,              \* the planet's entry of all_data.json
  _summer_zones,            \* PeriodicWeatherPlanet._summer_zones
  _winter_zones,            \* PeriodicWeatherPlanet._winter_zones
  _season_change_lock,      \* TRUE while the planet's lock is held
  _locations,               \* Planet._locations, by location id
  p_pc,                     \* PeriodicController thread: position
  _planet_season_clock,     \* PeriodicController._planet_season_clock[planet]
  temp_zone,                \* PeriodicController.run: temp_zone
  ticks,                    \* clock updates the PeriodicController has made
  r_pc,                     \* RainController thread: position
  _planet_rain_locations,   \* RainController._planet_rain_locations[planet]
  planet_lock,              \* holder of the rain snapshot's lock
  new_rain_locations,       \* RainController.run: new_rain_locations
  count_rain_regions,       \* RainController.run: count_rain_regions
  rain_ticks,               \* loop iterations the RainController has begun
  rep_pc,                   \* report(): position
  gpd_planet_data,          \* getPlanetData: planet_data
  decorated_locations,      \* report(): decorated_locations
  location_index,           \* report(): locations processed so far
  reports,                  \* report() calls completed or aborted
  arr_a, arr_b,             \* arguments of arrange
  arr_pc,                   \* arrange call: position
  arr_result,               \* arrange(arr_a, arr_b)
  arr_swapped,              \* arrange(arr_b, arr_a)
  f_base_weather,           \* createWeatherController: base_weather
  f_weather_decorators,     \* createWeatherController: weather_decorators
  f_pc,                     \* createWeatherController: position
  f_index,                  \* createWeatherController: decorators consumed
  weather_controller,       \* createWeatherController: weather_controller
  all_data_planets,         \* getAllPlanets: all_data['planets']
  gl_pc,                    \* getAllPlanets: position
  gl_index,                 \* getAllPlanets: entries the loop has finished
  gl_planet,                \* getAllPlanets: planet
  gl_weather_controller,    \* getAllPlanets: weather_controller
  _WEATHER_CONTROLLERS,     \* planet_loader._WEATHER_CONTROLLERS
  yielded,                  \* positions of the entries whose planet was yielded
  source,                   \* all_data.json as it is now
  dr_pc,                    \* DataReader thread: position
  __should_read,            \* DataReader.__should_read
  _DATA_READER_STARTED,     \* the event is set
  _DATA_READER_SHUTDOWN,    \* the event is set
  sd_pc,                    \* data_reader.shutdown(): position
  q_result,                 \* outcome of the caller's last GetAllData
  queries,                  \* GetAllData calls the caller has made
  p_should_run,             \* PeriodicController._should_run
  r_should_run,             \* RainController._should_run
  cl_pc,                    \* shutdown() of the outermost controller: position
  gz_zones,                 \* GetZone call: the planet's zones
  gz_latitude,              \* GetZone call: location.latitude
  gz_pc,                    \* GetZone call: position
  gz_result,                \* GetZone call: the zone returned, or raised
  t_temperature,            \* Location.__temperature
  t_pc,                     \* getTemperatureAsString call: position
  t_result,                 \* getTemperatureAsString call: the string
  ap_chain,                 \* addPlanet: the classes of the chain, outermost first
  ap_level,                 \* addPlanet: the controller the call is in
  ap_pc,                    \* addPlanet: position
  ap_planets,               \* Controller._planets, by level of the chain
  ap_decorators,            \* Planet._weather_decorators, as chain levels
  ap_clock,                 \* PeriodicController._planet_season_clock
  cp_pc,                    \* a caller of getPlanetData: position
  cp_object,                \* the list object the first call returned
  cp_first,                 \* what the first call returned
  cp_list,                  \* the returned list as the caller has it now
  cp_later_object,          \* the list object the later call returned
  cp_later,                 \* what the later call returned
  _DATA_READER,             \* data_reader._DATA_READER
  _SINGLETON_LOCK,          \* holder of data_reader._SINGLETON_LOCK, 0: free
  gad_pc,                   \* data_reader.GetAllData: position, by caller
  readers_created           \* DataReader threads created and started

planet_vars == <<planet_data, _summer_zones, _winter_zones, _season_change_lock,
                 _locations>>
periodic_vars == <<p_pc, _planet_season_clock, temp_zone, ticks>>
rain_vars == <<r_pc, _planet_rain_locations, planet_lock, new_rain_locations,
               count_rain_regions, rain_ticks>>
report_vars == <<rep_pc, gpd_planet_data, decorated_locations, location_index,
                 reports>>
arrange_vars == <<arr_a, arr_b, arr_pc, arr_result, arr_swapped>>
factory_vars == <<f_base_weather, f_weather_decorators, f_pc, f_index,
                  weather_controller>>
loader_vars == <<all_data_planets, gl_pc, gl_index, gl_planet,
                 gl_weather_controller, _WEATHER_CONTROLLERS, yielded>>
reader_vars == <<source, dr_pc, __should_read, _DATA_READER_STARTED,
                 _DATA_READER_SHUTDOWN, sd_pc, q_result, queries>>
stop_vars == <<p_should_run, r_should_run, cl_pc>>
call_vars == <<gz_zones, gz_latitude, gz_pc, gz_result, t_temperature, t_pc,
               t_result>>
chain_vars == <<ap_chain, ap_level, ap_pc, ap_planets, ap_decorators,
                ap_clock>>
\* The variables of the registration of a planet with a chain, of a
\* caller of getPlanetData and of the first calls of GetAllData.
alias_vars == <<cp_pc, cp_object, cp_first, cp_list, cp_later_object,
                cp_later>>
single_vars == <<_DATA_READER, _SINGLETON_LOCK, gad_pc, readers_created>>
rest_vars == <<chain_vars, alias_vars, single_vars>>
\* The variables of one planet with its controller chain, of the arrange
\* call and of the factory call.
core_vars == <<planet_vars, periodic_vars, rain_vars, report_vars,
               arrange_vars, factory_vars>>
\* The variables the steps of a planet, of arrange and of the factory leave
\* alone.
ext_vars == <<loader_vars, reader_vars, stop_vars, call_vars, rest_vars>>
\* What the steps of getAllPlanets leave alone.
not_loader_vars == <<core_vars, reader_vars, stop_vars, call_vars,
                     rest_vars>>
\* What the steps of the DataReader and of its callers leave alone, the
\* cached entry planet_data apart.
not_reader_vars == <<_summer_zones, _winter_zones, _season_change_lock,
                     _locations, periodic_vars, rain_vars, report_vars,
                     arrange_vars, factory_vars, loader_vars, stop_vars,
                     call_vars, rest_vars>>
\* What the steps of shutdown() and the loop exits leave alone, the
\* threads' positions apart.
not_stop_vars == <<planet_vars, _planet_season_clock, temp_zone, ticks,
                   _planet_rain_locations, planet_lock, new_rain_locations,
                   count_rain_regions, rain_ticks, report_vars, arrange_vars,
                   factory_vars, loader_vars, reader_vars, call_vars,
                   rest_vars>>
\* What the calls of GetZone and getTemperatureAsString leave alone.
not_call_vars == <<core_vars, loader_vars, reader_vars, stop_vars,
                   rest_vars>>
\* What the steps of addPlanet leave alone.
not_chain_vars == <<core_vars, loader_vars, reader_vars, stop_vars,
                    call_vars, alias_vars, single_vars>>
\* What the steps of a caller of getPlanetData leave alone, the published
\* list apart.
not_alias_vars == <<planet_vars, periodic_vars, r_pc, planet_lock,
                    new_rain_locations, count_rain_regions, rain_ticks,
                    report_vars, arrange_vars, factory_vars, loader_vars,
                    reader_vars, stop_vars, call_vars, chain_vars,
                    single_vars>>
\* What the steps of GetAllData leave alone, the DataReader thread's
\* position apart.
not_single_vars == <<core_vars, loader_vars, source, __should_read,
                     _DATA_READER_STARTED, _DATA_READER_SHUTDOWN, sd_pc,
                     q_result, queries, stop_vars, call_vars, chain_vars,
                     alias_vars>>
vars == <<core_vars, ext_vars>>


(***************************************************************************)
(* Initial states: the planet and its controller chain as getAllPlanets    *)
(* leaves them before weather_controller.start().                          *)
(***************************************************************************)
InitPlanet(configs) ==
  /\ planet_data \in configs
  /\ _summer_zones = InitSummerZones(planet_data)
  /\ _winter_zones = InitWinterZones(planet_data)
  /\ _season_change_lock = FALSE
  /\ _locations = PlanetLocations
  /\ p_pc = "unstarted"
  /\ _planet_season_clock = Unset
  /\ temp_zone = <<>>
  /\ ticks = 0
  /\ r_pc = IF planet_data.weather_decorators = <<>> THEN "absent" ELSE "unstarted"
  /\ _planet_rain_locations = [state |-> "missing", list |-> <<>>]
  /\ planet_lock = "free"
  /\ new_rain_locations = <<>>
  /\ count_rain_regions = 0
  /\ rain_ticks = 0
  /\ rep_pc = "unstarted"
  /\ gpd_planet_data = [state |-> "missing", list |-> <<>>]
  /\ decorated_locations = <<>>
  /\ location_index = 0
  /\ reports = 0
  /\ p_should_run = TRUE
  /\ r_should_run = TRUE
  /\ cl_pc = "idle"

InitArrange(points) ==
  /\ arr_a \in points
  /\ arr_b \in points
  /\ arr_pc = "call"
  /\ arr_result = <<>>
  /\ arr_swapped = <<>>

InitFactory(base_weathers, decorator_lists) ==
  /\ f_base_weather \in base_weathers
  /\ f_weather_decorators \in decorator_lists
  /\ f_pc = "base"
  /\ f_index = 0
  /\ weather_controller = NoController

\* The DataReader after the first GetAllData call: the thread has loaded
\* the file, which has not changed since, and sleeps.
InitReader ==
  /\ source = Readable(planet_data.revolution_period)
  /\ dr_pc = "sleep"
  /\ __should_read = TRUE
  /\ _DATA_READER_STARTED = TRUE
  /\ _DATA_READER_SHUTDOWN = FALSE
  /\ sd_pc = "idle"
  /\ q_result = [status |-> "none", revolution_period |-> Unset]
  /\ queries = 0

\* No chain has been handed to addPlanet; the planet has no decorators
\* (Planet.__init__) and the base controller no clocks (line 64).
InitChain ==
  /\ ap_chain = <<>>
  /\ ap_level = 0
  /\ ap_pc = "idle"
  /\ ap_planets = <<>>
  /\ ap_decorators = <<>>
  /\ ap_clock = [planet \in {} |-> 0]

\* The module after import (lines 14-23): no DataReader, the events
\* cleared, and the threads that are about to make their first call.
InitReaderAbsent(sources) ==
  /\ source \in sources
  /\ dr_pc = "absent"
  /\ __should_read = TRUE
  /\ _DATA_READER_STARTED = FALSE
  /\ _DATA_READER_SHUTDOWN = FALSE
  /\ sd_pc = "idle"
  /\ q_result = [status |-> "none", revolution_period |-> Unset]
  /\ queries = 0
  /\ _DATA_READER = None
  /\ _SINGLETON_LOCK = 0
  /\ gad_pc = [caller \in 1..MaxCallers |-> "call"]
  /\ readers_created = 0

\* The singleton in place after the first GetAllData calls returned.
InitSingleton ==
  /\ _DATA_READER = "DataReader"
  /\ _SINGLETON_LOCK = 0
  /\ gad_pc = [caller \in 1..MaxCallers |-> "returned"]
  /\ readers_created = 1

\* No caller holds a list getPlanetData returned.
InitCaller ==
  /\ cp_pc = "idle"
  /\ cp_object = Unset
  /\ cp_first = <<>>
  /\ cp_list = <<>>
  /\ cp_later_object = Unset
  /\ cp_later = <<>>

\* The arguments of a GetZone call and of a getTemperatureAsString call.
InitCalls(zone_lists, latitudes, temperatures) ==
  /\ gz_zones \in zone_lists
  /\ gz_latitude \in latitudes
  /\ gz_pc = "call"
  /\ gz_result = [raised |-> FALSE, zone |-> 0]
  /\ t_temperature \in temperatures
  /\ t_pc = "call"
  /\ t_result = NoneString

\* getAllPlanets before its first iteration, all_data['planets'] loaded.
InitLoader(entry_lists) ==
  /\ all_data_planets \in entry_lists
  /\ gl_pc = "loop"
  /\ gl_index = 0
  /\ gl_planet = NoPlanet
  /\ gl_weather_controller = NoController
  /\ _WEATHER_CONTROLLERS = <<>>
  /\ yielded = <<>>

(***************************************************************************)
(* planet_loader.getAllPlanets: weather_controller.start()                 *)
(***************************************************************************)
\* Thread.start() leaving the thread as it is.
StartThreadNot(pc) == pc

\* Thread.start(): the thread enters run().
StartThread(pc) == "run"

\* Starts the outermost controller of the chain; the driver calls report()
\* only after it.
Start ==
  /\ rep_pc = "unstarted"
  /\ rep_pc' = "idle"
  /\ IF planet_data.weather_decorators = <<>>
       THEN p_pc' = StartThread(p_pc) /\ r_pc' = r_pc
       ELSE r_pc' = StartThread(r_pc) /\ p_pc' = p_pc
  /\ UNCHANGED <<planet_vars, _planet_season_clock, temp_zone, ticks,
                 _planet_rain_locations, planet_lock, new_rain_locations,
                 count_rain_regions, rain_ticks, gpd_planet_data,
                 decorated_locations, location_index, reports,
                 arrange_vars, factory_vars, ext_vars>>

(***************************************************************************)
(* PeriodicController.run                                                  *)
(***************************************************************************)
\* The clock update with the period itself as modulus.
NextClockFullPeriod(season_clock, period) == (season_clock + 1) % period

\* new_clock = (season_clock + 1) % planet_period, planet_period being
\* GetPeriod(planet) / 2 on integers.
NextClock(season_clock, period) == (season_clock + 1) % (period \div 2)

\* Lines 67-69: the clock of every planet of the controller starts at 0.
PeriodicInit ==
  /\ p_pc = "run"
  /\ _planet_season_clock' = <<0>>
  /\ p_pc' = "loop"
  /\ UNCHANGED <<planet_vars, temp_zone, ticks, rain_vars, report_vars,
                 arrange_vars, factory_vars, ext_vars>>

\* Lines 70-76 and 84: one clock update; a half period of zero raises
\* ZeroDivisionError, which ends the thread.
PeriodicTick ==
  /\ p_pc = "loop"
  /\ p_should_run
  /\ ticks < MaxTicks
  /\ IF GetPeriod(planet_data) \div 2 = 0
       THEN /\ p_pc' = "crashed"
            /\ UNCHANGED <<_planet_season_clock, ticks>>
       ELSE /\ _planet_season_clock' =
                 <<NextClock(_planet_season_clock[1], GetPeriod(planet_data))>>
            /\ ticks' = ticks + 1
            /\ p_pc' = IF _planet_season_clock'[1] = 0 THEN "flip" ELSE "loop"
  /\ UNCHANGED <<planet_vars, temp_zone, rain_vars, report_vars,
                 arrange_vars, factory_vars, ext_vars>>

\* Line 70: the loop condition is false, run() returns.
PeriodicExit ==
  /\ p_pc = "loop"
  /\ ~p_should_run
  /\ p_pc' = "exited"
  /\ UNCHANGED <<r_pc, stop_vars, not_stop_vars>>

\* Lines 79-81: takes the planet's lock and saves the summer zones.
PeriodicFlipAcquire ==
  /\ p_pc = "flip"
  /\ _season_change_lock = FALSE
  /\ _season_change_lock' = TRUE
  /\ temp_zone' = _summer_zones
  /\ p_pc' = "flip_summer"
  /\ UNCHANGED <<planet_data, _summer_zones, _winter_zones, _locations,
                 _planet_season_clock, ticks, rain_vars, report_vars,
                 arrange_vars, factory_vars, ext_vars>>

\* Line 82: planet.summer_zones = planet.winter_zones
PeriodicFlipSummer ==
  /\ p_pc = "flip_summer"
  /\ _summer_zones' = _winter_zones
  /\ p_pc' = "flip_winter"
  /\ UNCHANGED <<planet_data, _winter_zones, _season_change_lock, _locations,
                 _planet_season_clock, temp_zone, ticks, rain_vars,
                 report_vars, arrange_vars, factory_vars, ext_vars>>

\* Line 83 and the end of the with block: planet.winter_zones = temp_zone,
\* then the lock is released and the thread sleeps.
PeriodicFlipWinter ==
  /\ p_pc = "flip_winter"
  /\ _winter_zones' = temp_zone
  /\ _season_change_lock' = FALSE
  /\ p_pc' = "loop"
  /\ UNCHANGED <<planet_data, _summer_zones, _locations,
                 _planet_season_clock, temp_zone, ticks, rain_vars,
                 report_vars, arrange_vars, factory_vars, ext_vars>>


(***************************************************************************)
(* RainController.run                                                      *)
(***************************************************************************)
\* An entry of a region list: the region arrange() returned, with the loop
\* iteration that sampled it and the number of regions that iteration drew.
RainEntry(region, tick, of) == [region |-> region, tick |-> tick, of |-> of]

\* The fill loop left after its first region.
FillDoneEarly(locations, count) == Len(locations) >= 1

\* for _ in range(count_rain_regions): the loop has run to its end.
FillDone(locations, count) == Len(locations) = count

\* Line 146: starts the wrapped controller.
RainStartBase ==
  /\ r_pc = "run"
  /\ p_pc' = StartThread(p_pc)
  /\ r_pc' = "loop"
  /\ UNCHANGED <<planet_vars, _planet_season_clock, temp_zone, ticks,
                 _planet_rain_locations, planet_lock, new_rain_locations,
                 count_rain_regions, rain_ticks, report_vars, arrange_vars,
                 factory_vars, ext_vars>>

\* Lines 147-159: the allowed latitudes (ValueError without a rain zone ends
\* the thread), the defaultdict lookup that inserts the empty tuple, a fresh
\* list and the number of regions to sample.
RainTickBegin ==
  /\ r_pc = "loop"
  /\ r_should_run
  /\ rain_ticks < MaxRainTicks
  /\ IF RainLatitudes(planet_data) = {}
       THEN /\ r_pc' = "crashed"
            /\ UNCHANGED <<_planet_rain_locations, new_rain_locations,
                           count_rain_regions, rain_ticks>>
       ELSE /\ _planet_rain_locations' =
                 IF _planet_rain_locations.state = "missing"
                   THEN [state |-> "empty", list |-> <<>>]
                   ELSE _planet_rain_locations
            /\ new_rain_locations' = <<>>
            /\ count_rain_regions' \in 1..MaxRainRegions
            /\ rain_ticks' = rain_ticks + 1
            /\ r_pc' = "fill"
  /\ UNCHANGED <<planet_vars, periodic_vars, planet_lock, report_vars,
                 arrange_vars, factory_vars, ext_vars>>

\* Line 147: the loop condition is false, run() returns.
RainExit ==
  /\ r_pc = "loop"
  /\ ~r_should_run
  /\ r_pc' = "exited"
  /\ UNCHANGED <<p_pc, stop_vars, not_stop_vars>>

\* Lines 160-168: one region from two sampled points.
RainSample ==
  /\ r_pc = "fill"
  /\ Len(new_rain_locations) < count_rain_regions
  /\ LET band == getAllowedRainLatitudes(planet_data)
         latitudes == band[1]..band[2]
         longitudes == _LONGITUDE_RANGE[1].._LONGITUDE_RANGE[2]
     IN \E start_latitude, end_latitude \in latitudes :
          \E start_longitude, end_longitude \in longitudes :
            new_rain_locations' =
              Append(new_rain_locations,
                     RainEntry(arrange(Point(start_latitude, start_longitude),
                                       Point(end_latitude, end_longitude)),
                               rain_ticks, count_rain_regions))
  /\ UNCHANGED <<planet_vars, periodic_vars, r_pc, _planet_rain_locations,
                 planet_lock, count_rain_regions, rain_ticks, report_vars,
                 arrange_vars, factory_vars, ext_vars>>

\* Line 169: with planet_lock, after the fill loop.
RainPublishAcquire ==
  /\ r_pc = "fill"
  /\ FillDone(new_rain_locations, count_rain_regions)
  /\ planet_lock = "free"
  /\ planet_lock' = "writer"
  /\ r_pc' = "publish"
  /\ UNCHANGED <<planet_vars, periodic_vars, _planet_rain_locations,
                 new_rain_locations, count_rain_regions, rain_ticks,
                 report_vars, arrange_vars, factory_vars, ext_vars>>

\* Lines 170-171: the new list replaces the snapshot, the lock is released
\* and the thread sleeps.
RainPublish ==
  /\ r_pc = "publish"
  /\ _planet_rain_locations' = [state |-> "set", list |-> new_rain_locations]
  /\ planet_lock' = "free"
  /\ r_pc' = "loop"
  /\ UNCHANGED <<planet_vars, periodic_vars, new_rain_locations,
                 count_rain_regions, rain_ticks, report_vars, arrange_vars,
                 factory_vars, ext_vars>>

(***************************************************************************)
(* PeriodicWeatherPlanet.report and RainController.getPlanetData           *)
(***************************************************************************)
\* Line 90, before the first getPlanetData call.
ReportBegin ==
  /\ rep_pc = "idle"
  /\ reports < MaxReports
  /\ decorated_locations' = <<>>
  /\ location_index' = 0
  /\ rep_pc' = IF planet_data.weather_decorators = <<>>
                 THEN "locations" ELSE "getPlanetData"
  /\ UNCHANGED <<planet_vars, periodic_vars, rain_vars, gpd_planet_data,
                 reports, arrange_vars, factory_vars, ext_vars>>

\* getPlanetData lines 135-136 and 142: the dict lookup; a missing or empty
\* value is returned as it is.
GetPlanetDataRead ==
  /\ rep_pc = "getPlanetData"
  /\ gpd_planet_data' = _planet_rain_locations
  /\ rep_pc' = IF _planet_rain_locations.state = "set"
                 THEN "gpd_lock" ELSE "locations"
  /\ UNCHANGED <<planet_vars, periodic_vars, rain_vars, decorated_locations,
                 location_index, reports, arrange_vars, factory_vars,
                 ext_vars>>

\* getPlanetData line 139: with planet_lock.
GetPlanetDataAcquire ==
  /\ rep_pc = "gpd_lock"
  /\ planet_lock = "free"
  /\ planet_lock' = "reader"
  /\ rep_pc' = "gpd_copy"
  /\ UNCHANGED <<planet_vars, periodic_vars, r_pc, _planet_rain_locations,
                 new_rain_locations, count_rain_regions, rain_ticks,
                 gpd_planet_data, decorated_locations, location_index,
                 reports, arrange_vars, factory_vars, ext_vars>>

\* getPlanetData lines 140-141: the list of the tuple read at line 135 is
\* returned; report() appends its regions to decorated_locations.
GetPlanetDataReturn ==
  /\ rep_pc = "gpd_copy"
  /\ decorated_locations' = decorated_locations \o gpd_planet_data.list
  /\ planet_lock' = "free"
  /\ rep_pc' = "locations"
  /\ UNCHANGED <<planet_vars, periodic_vars, r_pc, _planet_rain_locations,
                 new_rain_locations, count_rain_regions, rain_ticks,
                 gpd_planet_data, location_index, reports, arrange_vars,
                 factory_vars, ext_vars>>

\* Lines 91-111 for one location: zone, season, the sampled conditions and
\* the season label; DataReaderError from GetZone and TypeError from a
\* range lookup abort the call.
ReportLocation ==
  /\ rep_pc = "locations"
  /\ location_index < Len(_locations)
  /\ LET id == getLocations(_locations)[location_index + 1]
         location == _locations[id]
     IN IF GetZone(location, planet_data) = {}
          THEN /\ rep_pc' = "raised"
               /\ reports' = reports + 1
               /\ UNCHANGED <<_locations, location_index>>
          ELSE \E zone \in GetZone(location, planet_data) :
                 LET season == ResolveSeason(
                                 TestedRegions(decorated_locations,
                                               _planet_rain_locations.list),
                                 location, zone, _summer_zones)
                     t == GetTemperatureRange(planet_data, zone, season)
                     p == GetPressureRange(planet_data, zone, season)
                     h == GetHumidityRange(planet_data, zone, season)
                 IN \E outcome \in ReportOutcomes(location, season, t, p, h) :
                      /\ _locations' =
                           StoreLocation(_locations, id, outcome.location)
                      /\ IF outcome.raised
                           THEN /\ rep_pc' = "raised"
                                /\ reports' = reports + 1
                                /\ UNCHANGED location_index
                           ELSE /\ location_index' = location_index + 1
                                /\ UNCHANGED <<rep_pc, reports>>
  /\ UNCHANGED <<planet_data, _summer_zones, _winter_zones,
                 _season_change_lock, periodic_vars, rain_vars,
                 gpd_planet_data, decorated_locations, arrange_vars,
                 factory_vars, ext_vars>>

\* Line 112: the separator after the last location; the call returns.
ReportEnd ==
  /\ rep_pc = "locations"
  /\ location_index = Len(_locations)
  /\ rep_pc' = "idle"
  /\ reports' = reports + 1
  /\ UNCHANGED <<planet_vars, periodic_vars, rain_vars, gpd_planet_data,
                 decorated_locations, location_index, arrange_vars,
                 factory_vars, ext_vars>>

(***************************************************************************)
(* arrange and createWeatherController as calls                            *)
(***************************************************************************)
ArrangeCall ==
  /\ arr_pc = "call"
  /\ arr_result' = arrange(arr_a, arr_b)
  /\ arr_swapped' = arrange(arr_b, arr_a)
  /\ arr_pc' = "done"
  /\ UNCHANGED <<arr_a, arr_b, planet_vars, periodic_vars, rain_vars,
                 report_vars, factory_vars, ext_vars>>

\* Line 232: weather_controller = createBaseController(base_weather)
FactoryBase ==
  /\ f_pc = "base"
  /\ weather_controller' = createBaseController(f_base_weather)
  /\ f_pc' = "decorators"
  /\ UNCHANGED <<f_base_weather, f_weather_decorators, f_index, planet_vars,
                 periodic_vars, rain_vars, report_vars, arrange_vars,
                 ext_vars>>

\* Lines 233-234: one iteration of the loop over weather_decorators.
FactoryDecorate ==
  /\ f_pc = "decorators"
  /\ f_index < Len(f_weather_decorators)
  /\ weather_controller' =
       createWeatherDecorator(f_weather_decorators[f_index + 1],
                              weather_controller)
  /\ f_index' = f_index + 1
  /\ UNCHANGED <<f_base_weather, f_weather_decorators, f_pc, planet_vars,
                 periodic_vars, rain_vars, report_vars, arrange_vars,
                 ext_vars>>

\* Line 235: return weather_controller
FactoryReturn ==
  /\ f_pc = "decorators"
  /\ f_index = Len(f_weather_decorators)
  /\ f_pc' = "returned"
  /\ UNCHANGED <<f_base_weather, f_weather_decorators, f_index,
                 weather_controller, planet_vars, periodic_vars, rain_vars,
                 report_vars, arrange_vars, ext_vars>>

\* data_reader.GetZone(location, planet): the zone the iteration over the
\* dict reaches first among those the test accepts, or DataReaderError.
GetZoneCall ==
  /\ gz_pc = "call"
  /\ LET zones == GetZone([latitude |-> gz_latitude], [zones |-> gz_zones])
     IN IF zones = {}
          THEN gz_result' = [raised |-> TRUE, zone |-> 0]
          ELSE \E zone \in zones : gz_result' = [raised |-> FALSE, zone |-> zone]
  /\ gz_pc' = "done"
  /\ UNCHANGED <<gz_zones, gz_latitude, t_temperature, t_pc, t_result,
                 not_call_vars>>

\* location.getTemperatureAsString()
TemperatureAsStringCall ==
  /\ t_pc = "call"
  /\ t_result' = getTemperatureAsString(t_temperature)
  /\ t_pc' = "done"
  /\ UNCHANGED <<t_temperature, gz_zones, gz_latitude, gz_pc, gz_result,
                 not_call_vars>>

(***************************************************************************)
(* A caller of RainController.getPlanetData that changes the list it got   *)
(***************************************************************************)
\* The list object of the published tuple, named by the loop iteration that
\* created it at line 158; an iteration under way has not published its
\* list yet.
StoredObject ==
  IF r_pc \in {"fill", "publish"} THEN <<rain_ticks - 1>> ELSE <<rain_ticks>>

\* getPlanetData as one call: the list object of the published tuple
\* itself, read under its lock (lines 140-141: rain_locations =
\* planet_data[1]), or the falsy value of line 142 (the default [] or the
\* defaultdict's empty tuple).
CallerGetPlanetData ==
  /\ cp_pc = "idle"
  /\ _planet_rain_locations.state = "set" => planet_lock = "free"
  /\ cp_first' = _planet_rain_locations.list
  /\ cp_list' = _planet_rain_locations.list
  /\ cp_object' = IF _planet_rain_locations.state = "set"
                    THEN StoredObject ELSE Unset
  /\ cp_pc' = IF _planet_rain_locations.state = "empty"
                THEN "tuple" ELSE "holding"
  /\ UNCHANGED <<cp_later_object, cp_later, _planet_rain_locations,
                 not_alias_vars>>

\* The caller removes the last region of the list it holds, or appends a
\* region to it; the published list changes with it while it is the same
\* object.
CallerChange ==
  /\ cp_pc = "holding"
  /\ \E changed \in
         {Append(cp_list, RainEntry(<<Point(0, 0), Point(0, 0)>>, 0, 0))}
         \cup {SubSeq(cp_list, 1, Len(cp_list) - 1) : n \in {1} \cap 1..Len(cp_list)} :
       /\ cp_list' = changed
       /\ _planet_rain_locations' =
            IF cp_object # Unset /\ cp_object = StoredObject
              THEN [_planet_rain_locations EXCEPT !.list = changed]
              ELSE _planet_rain_locations
  /\ cp_pc' = "changed"
  /\ UNCHANGED <<cp_object, cp_first, cp_later_object, cp_later,
                 not_alias_vars>>

\* A later getPlanetData call of the caller.
CallerGetPlanetDataLater ==
  /\ cp_pc = "changed"
  /\ _planet_rain_locations.state = "set" => planet_lock = "free"
  /\ cp_later' = _planet_rain_locations.list
  /\ cp_later_object' = IF _planet_rain_locations.state = "set"
                          THEN StoredObject ELSE Unset
  /\ cp_pc' = "later"
  /\ UNCHANGED <<cp_object, cp_first, cp_list, _planet_rain_locations,
                 not_alias_vars>>

(***************************************************************************)
(* weather_controller.addPlanet(planet) followed by the base's start       *)
(***************************************************************************)
\* getAllPlanets line 33: weather_controller.addPlanet(planet) on the
\* chain createWeatherController returned; every controller of the chain
\* was constructed with an empty set of planets (line 38).
AddPlanetCall ==
  /\ ap_pc = "idle"
  /\ f_pc = "returned"
  /\ ap_chain' = ChainClasses(weather_controller)
  /\ ap_level' = 1
  /\ ap_pc' = "call"
  /\ ap_planets' = [level \in DOMAIN ChainClasses(weather_controller) |-> {}]
  /\ UNCHANGED <<ap_decorators, ap_clock, not_chain_vars>>

\* WeatherControllerDecorator.addPlanet line 104: the call enters the
\* wrapped controller's addPlanet.
AddPlanetDescend ==
  /\ ap_pc = "call"
  /\ ap_chain[ap_level] = "RainController"
  /\ ap_level' = ap_level + 1
  /\ UNCHANGED <<ap_chain, ap_pc, ap_planets, ap_decorators, ap_clock,
                 not_chain_vars>>

\* Controller.addPlanet of the PeriodicController, lines 42-43; the call
\* returns to the decorator that made it, or to getAllPlanets.
AddPlanetBase ==
  /\ ap_pc = "call"
  /\ ap_chain[ap_level] = "PeriodicController"
  /\ ap_planets' =
       [ap_planets EXCEPT ![ap_level] = PlanetsAdd(ap_planets[ap_level], "planet")]
  /\ ap_level' = ap_level - 1
  /\ ap_pc' = IF ap_level = 1 THEN "returned" ELSE "return"
  /\ UNCHANGED <<ap_chain, ap_decorators, ap_clock, not_chain_vars>>

\* addPlanet looked up on None: AttributeError.
AddPlanetNone ==
  /\ ap_pc = "call"
  /\ ap_chain[ap_level] = "None"
  /\ ap_pc' = "raised"
  /\ UNCHANGED <<ap_chain, ap_level, ap_planets, ap_decorators, ap_clock,
                 not_chain_vars>>

\* WeatherControllerDecorator.addPlanet lines 105-106, after the wrapped
\* controller's addPlanet returned.
AddPlanetRegister ==
  /\ ap_pc = "return"
  /\ ap_planets' =
       [ap_planets EXCEPT ![ap_level] = PlanetsAdd(ap_planets[ap_level], "planet")]
  /\ ap_decorators' = Append(ap_decorators, ap_level)
  /\ ap_level' = ap_level - 1
  /\ ap_pc' = IF ap_level = 1 THEN "returned" ELSE "return"
  /\ UNCHANGED <<ap_chain, ap_clock, not_chain_vars>>

\* PeriodicController.run lines 67-69 once the chain is started: a clock
\* for every planet of the base controller.
AddPlanetClocks ==
  /\ ap_pc = "returned"
  /\ ap_clock' = [planet \in ap_planets[Len(ap_chain)] |-> 0]
  /\ ap_pc' = "started"
  /\ UNCHANGED <<ap_chain, ap_level, ap_planets, ap_decorators,
                 not_chain_vars>>

(***************************************************************************)
(* shutdown() of the outermost controller of the chain                     *)
(***************************************************************************)
\* Controller.shutdown leaving the flag as it is.
ControllerShutdownKeep(should_run) == should_run

\* Controller.shutdown line 50, and line 111 of the decorator's shutdown:
\* self._should_run = False
ControllerShutdown(should_run) == FALSE

\* Controller.shutdown of the PeriodicController, called on it as the
\* outermost controller or from the decorator's shutdown at line 110.
ShutdownBaseController ==
  /\ cl_pc = "idle"
  /\ p_should_run' = ControllerShutdown(p_should_run)
  /\ cl_pc' = IF planet_data.weather_decorators = <<>> THEN "done" ELSE "decorator"
  /\ UNCHANGED <<p_pc, r_pc, r_should_run, not_stop_vars>>

\* WeatherControllerDecorator.shutdown line 111.
ShutdownDecorator ==
  /\ cl_pc = "decorator"
  /\ r_should_run' = ControllerShutdown(r_should_run)
  /\ cl_pc' = "done"
  /\ UNCHANGED <<p_pc, r_pc, p_should_run, not_stop_vars>>

(***************************************************************************)
(* data_reader.py: the DataReader thread, the file it reads, GetAllData    *)
(* and shutdown                                                            *)
(***************************************************************************)
\* all_data.json is edited, removed or restored.
SourceChange ==
  /\ source' \in Sources \ {source}
  /\ UNCHANGED <<planet_data, dr_pc, __should_read, _DATA_READER_STARTED,
                 _DATA_READER_SHUTDOWN, sd_pc, q_result, queries,
                 not_reader_vars>>

\* DataReader.run, one iteration of lines 45-60: the file is loaded into
\* the cache; IOError clears __should_read and ends the thread with
\* DataReaderError; after close() the thread sets the shutdown event and
\* returns.
DataReaderRun ==
  /\ dr_pc = "sleep"
  /\ IF __should_read
       THEN /\ _DATA_READER_SHUTDOWN' = FALSE
            /\ _DATA_READER_STARTED' = TRUE
            /\ IF source.readable
                 THEN /\ planet_data' =
                           [planet_data EXCEPT
                              !.revolution_period = source.revolution_period]
                      /\ UNCHANGED <<dr_pc, __should_read>>
                 ELSE /\ __should_read' = FALSE
                      /\ dr_pc' = "raised"
                      /\ UNCHANGED planet_data
       ELSE /\ _DATA_READER_SHUTDOWN' = TRUE
            /\ dr_pc' = "returned"
            /\ UNCHANGED <<planet_data, __should_read, _DATA_READER_STARTED>>
  /\ UNCHANGED <<source, sd_pc, q_result, queries, not_reader_vars>>

\* data_reader.GetAllData with the singleton in place (lines 85-90) and
\* DataReader.GetAllData (lines 62-67): the cache is returned.
GetAllDataCall ==
  /\ queries < MaxQueries
  /\ queries' = queries + 1
  /\ q_result' = [status |-> "returned",
                  revolution_period |-> planet_data.revolution_period]
  /\ UNCHANGED <<planet_data, source, dr_pc, __should_read,
                 _DATA_READER_STARTED, _DATA_READER_SHUTDOWN, sd_pc,
                 not_reader_vars>>

\* with _SINGLETON_LOCK entered whatever its holder.
LockFreeAlways(lock) == TRUE

\* with _SINGLETON_LOCK (line 85): the lock can be taken when it is free.
LockFree(lock) == lock = 0

\* GetAllData line 85: the caller takes _SINGLETON_LOCK.
GetAllDataAcquire(caller) ==
  /\ gad_pc[caller] = "call"
  /\ LockFree(_SINGLETON_LOCK)
  /\ _SINGLETON_LOCK' = caller
  /\ gad_pc' = [gad_pc EXCEPT ![caller] = "locked"]
  /\ UNCHANGED <<_DATA_READER, readers_created, dr_pc, planet_data,
                 not_single_vars>>

\* Lines 86-88: no DataReader yet; one is created and started.
GetAllDataCreate(caller) ==
  /\ gad_pc[caller] = "locked"
  /\ _DATA_READER = None
  /\ _DATA_READER' = "DataReader"
  /\ readers_created' = readers_created + 1
  /\ dr_pc' = "sleep"
  /\ gad_pc' = [gad_pc EXCEPT ![caller] = "wait"]
  /\ UNCHANGED <<_SINGLETON_LOCK, planet_data, not_single_vars>>

\* Line 86 with the DataReader in place: the with block ends.
GetAllDataFound(caller) ==
  /\ gad_pc[caller] = "locked"
  /\ _DATA_READER # None
  /\ _SINGLETON_LOCK' = 0
  /\ gad_pc' = [gad_pc EXCEPT ![caller] = "read"]
  /\ UNCHANGED <<_DATA_READER, readers_created, dr_pc, planet_data,
                 not_single_vars>>

\* Line 89: _DATA_READER_STARTED.wait() returns and the with block ends.
GetAllDataStarted(caller) ==
  /\ gad_pc[caller] = "wait"
  /\ _DATA_READER_STARTED
  /\ _SINGLETON_LOCK' = 0
  /\ gad_pc' = [gad_pc EXCEPT ![caller] = "read"]
  /\ UNCHANGED <<_DATA_READER, readers_created, dr_pc, planet_data,
                 not_single_vars>>

\* Line 90: return _DATA_READER.GetAllData()
GetAllDataReturn(caller) ==
  /\ gad_pc[caller] = "read"
  /\ gad_pc' = [gad_pc EXCEPT ![caller] = "returned"]
  /\ UNCHANGED <<_DATA_READER, _SINGLETON_LOCK, readers_created, dr_pc,
                 planet_data, not_single_vars>>

\* data_reader.shutdown lines 77-78: _DATA_READER.close()
ReaderShutdownClose ==
  /\ sd_pc = "idle"
  /\ __should_read' = FALSE
  /\ sd_pc' = "wait"
  /\ UNCHANGED <<planet_data, source, dr_pc, _DATA_READER_STARTED,
                 _DATA_READER_SHUTDOWN, q_result, queries, not_reader_vars>>

\* data_reader.shutdown line 79: _DATA_READER_SHUTDOWN.wait() returns.
ReaderShutdownWait ==
  /\ sd_pc = "wait"
  /\ _DATA_READER_SHUTDOWN
  /\ sd_pc' = "done"
  /\ UNCHANGED <<planet_data, source, dr_pc, __should_read,
                 _DATA_READER_STARTED, _DATA_READER_SHUTDOWN, q_result,
                 queries, not_reader_vars>>

(***************************************************************************)
(* planet_loader.getAllPlanets, driven by the for loop of _main            *)
(***************************************************************************)
\* Lines 27 and 30: the next entry and planet = createPlanet(planet_data).
LoaderCreatePlanet ==
  /\ gl_pc = "loop"
  /\ gl_index < Len(all_data_planets)
  /\ gl_planet' = createPlanet(all_data_planets[gl_index + 1])
  /\ gl_pc' = "createWeatherController"
  /\ UNCHANGED <<all_data_planets, gl_index, gl_weather_controller,
                 _WEATHER_CONTROLLERS, yielded, not_loader_vars>>

\* Lines 31-32: planet_data['base_weather'] raises KeyError when the key is
\* missing; the exception leaves the generator and the loop of _main.
LoaderCreateController ==
  /\ gl_pc = "createWeatherController"
  /\ LET entry == all_data_planets[gl_index + 1]
     IN IF entry.base_weather = None
          THEN /\ gl_pc' = "raised"
               /\ UNCHANGED gl_weather_controller
          ELSE /\ gl_weather_controller' =
                    createWeatherController(entry.base_weather,
                                            entry.weather_decorators)
               /\ gl_pc' = "addPlanet"
  /\ UNCHANGED <<all_data_planets, gl_index, gl_planet, _WEATHER_CONTROLLERS,
                 yielded, not_loader_vars>>

\* Line 33: weather_controller.addPlanet(planet); AttributeError on None
\* leaves the generator and the loop of _main.
LoaderAddPlanet ==
  /\ gl_pc = "addPlanet"
  /\ gl_pc' = IF CanAddPlanet(gl_weather_controller) THEN "start" ELSE "raised"
  /\ UNCHANGED <<all_data_planets, gl_index, gl_planet, gl_weather_controller,
                 _WEATHER_CONTROLLERS, yielded, not_loader_vars>>

\* Lines 34-36: the chain is started and registered, the planet is yielded;
\* _main reports on it and resumes the generator.
LoaderStart ==
  /\ gl_pc = "start"
  /\ _WEATHER_CONTROLLERS' = Append(_WEATHER_CONTROLLERS, gl_weather_controller)
  /\ yielded' = Append(yielded, gl_index + 1)
  /\ gl_index' = gl_index + 1
  /\ gl_pc' = "loop"
  /\ UNCHANGED <<all_data_planets, gl_planet, gl_weather_controller,
                 not_loader_vars>>

\* Line 27 after the last entry: the generator returns.
LoaderExhausted ==
  /\ gl_pc = "loop"
  /\ gl_index = Len(all_data_planets)
  /\ gl_pc' = "done"
  /\ UNCHANGED <<all_data_planets, gl_index, gl_planet, gl_weather_controller,
                 _WEATHER_CONTROLLERS, yielded, not_loader_vars>>

(***************************************************************************)
(* Specifications                                                          *)
(***************************************************************************)
Points == {Point(latitude, longitude) :
             latitude \in 0..MaxCoord, longitude \in 0..MaxCoord}

RECURSIVE DecoratorLists(_)
DecoratorLists(n) ==
  IF n = 0 THEN {<<>>}
  ELSE DecoratorLists(n - 1) \cup
       {Append(l, d) : l \in {m \in DecoratorLists(n - 1) : Len(m) = n - 1},
                       d \in {"rain", "storm"}}

\* The entries of all_data['planets'], by base_weather (None: the key is
\* missing) and weather_decorators, and the lists of up to n of them.
LoaderEntries ==
  {[base_weather |-> b, weather_decorators |-> d] :
     b \in {"periodic", "hurricane", None},
     d \in {<<>>, <<"rain">>, <<"storm">>}}
EntryLists(n) == UNION {[1..k -> LoaderEntries] : k \in 1..n}

IdleLoader ==
  InitLoader({<<[base_weather |-> "periodic", weather_decorators |-> <<>>]>>})
IdleCalls == InitCalls({<<<<0, 0>>>>}, {0}, {Unset})
IdleRest == InitChain /\ InitCaller /\ InitSingleton
IdleArrange == InitArrange({Point(0, 0)})
IdleFactory == InitFactory({"periodic"}, {<<>>})
IdlePlanet ==
  InitPlanet(PlanetConfigs({1}, {2}, {<<>>}, {{}}))

\* The planet with its controller chain, all threads interleaved with the
\* driver's report() calls; it may rain over the planet's first zone.
Init ==
  /\ InitPlanet(PlanetConfigs({0, 2}, 1..MaxPeriod, {<<>>, <<"rain">>}, {{1}}))
  /\ IdleArrange
  /\ IdleFactory
  /\ IdleLoader
  /\ InitReader
  /\ IdleCalls
  /\ IdleRest

Next ==
  \/ Start
  \/ PeriodicInit
  \/ PeriodicTick
  \/ PeriodicFlipAcquire
  \/ PeriodicFlipSummer
  \/ PeriodicFlipWinter
  \/ RainStartBase
  \/ RainTickBegin
  \/ RainSample
  \/ RainPublishAcquire
  \/ RainPublish
  \/ ReportBegin
  \/ GetPlanetDataRead
  \/ GetPlanetDataAcquire
  \/ GetPlanetDataReturn
  \/ ReportLocation
  \/ ReportEnd

Spec == Init /\ [][Next]_vars

\* A planet without decorators: the PeriodicController and report().
InitSeason ==
  /\ InitPlanet(PlanetConfigs(0..MaxZones, 1..MaxPeriod, {<<>>}, {{}}))
  /\ IdleArrange
  /\ IdleFactory
  /\ IdleLoader
  /\ InitReader
  /\ IdleCalls
  /\ IdleRest

NextSeason ==
  \/ Start
  \/ PeriodicInit
  \/ PeriodicTick
  \/ PeriodicFlipAcquire
  \/ PeriodicFlipSummer
  \/ PeriodicFlipWinter
  \/ ReportBegin
  \/ ReportLocation
  \/ ReportEnd

SpecSeason == InitSeason /\ [][NextSeason]_vars

\* A planet of two zones with a rain decorator, rain allowed over both
\* zones: the RainController and report(), the steps of the wrapped
\* PeriodicController left out.
InitRain ==
  /\ InitPlanet(PlanetConfigs({2}, {2}, {<<"rain">>}, {{1, 2}}))
  /\ IdleArrange
  /\ IdleFactory
  /\ IdleLoader
  /\ InitReader
  /\ IdleCalls
  /\ IdleRest

NextRain ==
  \/ Start
  \/ RainStartBase
  \/ RainTickBegin
  \/ RainSample
  \/ RainPublishAcquire
  \/ RainPublish
  \/ ReportBegin
  \/ GetPlanetDataRead
  \/ GetPlanetDataAcquire
  \/ GetPlanetDataReturn
  \/ ReportLocation
  \/ ReportEnd

SpecRain == InitRain /\ [][NextRain]_vars

\* The RainController over three zones of which any may be rain-eligible.
InitBand ==
  /\ InitPlanet(BandConfigs(SUBSET (DOMAIN BandZones)))
  /\ IdleArrange
  /\ IdleFactory
  /\ IdleLoader
  /\ InitReader
  /\ IdleCalls
  /\ IdleRest

NextBand ==
  \/ Start
  \/ RainStartBase
  \/ RainTickBegin
  \/ RainSample
  \/ RainPublishAcquire
  \/ RainPublish

SpecBand == InitBand /\ [][NextBand]_vars

\* The RainController and a caller of getPlanetData that changes the list
\* it was given and calls again.
InitAlias ==
  /\ InitPlanet(PlanetConfigs({2}, {2}, {<<"rain">>}, {{1, 2}}))
  /\ IdleArrange
  /\ IdleFactory
  /\ IdleLoader
  /\ InitReader
  /\ IdleCalls
  /\ IdleRest

NextAlias ==
  \/ Start
  \/ RainStartBase
  \/ RainTickBegin
  \/ RainSample
  \/ RainPublishAcquire
  \/ RainPublish
  \/ CallerGetPlanetData
  \/ CallerChange
  \/ CallerGetPlanetDataLater

SpecAlias == InitAlias /\ [][NextAlias]_vars

\* The first GetAllData calls of MaxCallers threads, the file readable or
\* not and changing meanwhile.
InitFirst ==
  /\ IdlePlanet
  /\ IdleArrange
  /\ IdleFactory
  /\ IdleLoader
  /\ InitReaderAbsent(Sources)
  /\ IdleCalls
  /\ InitChain
  /\ InitCaller

NextFirst ==
  \/ SourceChange
  \/ DataReaderRun
  \/ \E caller \in 1..MaxCallers :
       \/ GetAllDataAcquire(caller)
       \/ GetAllDataCreate(caller)
       \/ GetAllDataFound(caller)
       \/ GetAllDataStarted(caller)
       \/ GetAllDataReturn(caller)

SpecSingleton == InitFirst /\ [][NextFirst]_vars

\* arrange applied to every pair of points of a grid.
InitArr ==
  /\ IdlePlanet
  /\ InitArrange(Points)
  /\ IdleFactory
  /\ IdleLoader
  /\ InitReader
  /\ IdleCalls
  /\ IdleRest

NextArr == ArrangeCall

SpecArrange == InitArr /\ [][NextArr]_vars

\* createWeatherController applied to every base weather and decorator list.
InitFac ==
  /\ IdlePlanet
  /\ IdleArrange
  /\ InitFactory({"periodic", "hurricane"}, DecoratorLists(MaxDecorators))
  /\ IdleLoader
  /\ InitReader
  /\ IdleCalls
  /\ IdleRest

NextFac ==
  \/ FactoryBase
  \/ FactoryDecorate
  \/ FactoryReturn

SpecFactory == InitFac /\ [][NextFac]_vars

\* getAllPlanets over every list of up to MaxPlanets entries.
InitLoad ==
  /\ IdlePlanet
  /\ IdleArrange
  /\ IdleFactory
  /\ InitLoader(EntryLists(MaxPlanets))
  /\ InitReader
  /\ IdleCalls
  /\ IdleRest

NextLoad ==
  \/ LoaderCreatePlanet
  \/ LoaderCreateController
  \/ LoaderAddPlanet
  \/ LoaderStart
  \/ LoaderExhausted

SpecLoader == InitLoad /\ [][NextLoad]_vars

\* A planet without decorators whose file changes while the DataReader
\* refreshes its cache: the PeriodicController, the DataReader, a caller of
\* GetAllData and data_reader.shutdown().
InitRead ==
  /\ InitPlanet(PlanetConfigs({2}, 1..MaxPeriod, {<<>>}, {{}}))
  /\ IdleArrange
  /\ IdleFactory
  /\ IdleLoader
  /\ InitReader
  /\ IdleCalls
  /\ IdleRest

NextRead ==
  \/ Start
  \/ PeriodicInit
  \/ PeriodicTick
  \/ PeriodicFlipAcquire
  \/ PeriodicFlipSummer
  \/ PeriodicFlipWinter
  \/ SourceChange
  \/ DataReaderRun
  \/ GetAllDataCall
  \/ ReaderShutdownClose
  \/ ReaderShutdownWait

SpecReader == InitRead /\ [][NextRead]_vars

\* A controller chain, with and without a rain decorator, that is started
\* and shut down in any order; every thread that can take a step
\* eventually takes it.
InitStop ==
  /\ InitPlanet(PlanetConfigs({0, 2}, 1..MaxPeriod, {<<>>, <<"rain">>}, {{1}}))
  /\ IdleArrange
  /\ IdleFactory
  /\ IdleLoader
  /\ InitReader
  /\ IdleCalls
  /\ IdleRest

NextStop ==
  \/ Start
  \/ PeriodicInit
  \/ PeriodicTick
  \/ PeriodicExit
  \/ PeriodicFlipAcquire
  \/ PeriodicFlipSummer
  \/ PeriodicFlipWinter
  \/ RainStartBase
  \/ RainTickBegin
  \/ RainExit
  \/ RainSample
  \/ RainPublishAcquire
  \/ RainPublish
  \/ ShutdownBaseController
  \/ ShutdownDecorator

\* The scheduler runs every controller thread that is ready.
FairThreads ==
  /\ WF_vars(PeriodicInit)
  /\ WF_vars(PeriodicTick)
  /\ WF_vars(PeriodicExit)
  /\ WF_vars(PeriodicFlipAcquire)
  /\ WF_vars(PeriodicFlipSummer)
  /\ WF_vars(PeriodicFlipWinter)
  /\ WF_vars(RainStartBase)
  /\ WF_vars(RainTickBegin)
  /\ WF_vars(RainExit)
  /\ WF_vars(RainSample)
  /\ WF_vars(RainPublishAcquire)
  /\ WF_vars(RainPublish)

SpecShutdown == InitStop /\ [][NextStop]_vars /\ FairThreads

\* The latitude ranges of a zone, written in either order, and the zones
\* dicts of up to n zones.
LatitudeRanges ==
  {<<a, b>> : a \in -MaxLatitude..MaxLatitude, b \in -MaxLatitude..MaxLatitude}
ZoneLists(n) == UNION {[1..k -> LatitudeRanges] : k \in 1..n}

\* GetZone applied to every zones dict and every latitude of a grid.
InitZone ==
  /\ IdlePlanet
  /\ IdleArrange
  /\ IdleFactory
  /\ IdleLoader
  /\ InitReader
  /\ InitCalls(ZoneLists(MaxZones), -MaxLatitude..MaxLatitude, {Unset})
  /\ IdleRest

NextZone == GetZoneCall

SpecZone == InitZone /\ [][NextZone]_vars

\* The temperatures a location can hold: unset, a float, or an int.
Temperatures ==
  {Unset}
    \cup {<<Temperature("float", units)>> :
            units \in -MaxTemperature..MaxTemperature}
    \cup {<<Temperature("int", units)>> :
            units \in {u \in -MaxTemperature..MaxTemperature :
                         u % TemperatureScale = 0}}

\* getTemperatureAsString applied to every temperature of a grid.
InitTemp ==
  /\ IdlePlanet
  /\ IdleArrange
  /\ IdleFactory
  /\ IdleLoader
  /\ InitReader
  /\ InitCalls({<<<<0, 0>>>>}, {0}, Temperatures)
  /\ IdleRest

NextTemp == TemperatureAsStringCall

SpecTemperature == InitTemp /\ [][NextTemp]_vars

\* createWeatherController for every base weather and decorator list, then
\* addPlanet on the chain it returned and the start of the chain.
InitAdd ==
  /\ IdlePlanet
  /\ IdleArrange
  /\ InitFactory({"periodic", "hurricane"}, DecoratorLists(MaxDecorators))
  /\ IdleLoader
  /\ InitReader
  /\ IdleCalls
  /\ IdleRest

NextAdd ==
  \/ FactoryBase
  \/ FactoryDecorate
  \/ FactoryReturn
  \/ AddPlanetCall
  \/ AddPlanetDescend
  \/ AddPlanetBase
  \/ AddPlanetNone
  \/ AddPlanetRegister
  \/ AddPlanetClocks

SpecAddPlanet == InitAdd /\ [][NextAdd]_vars

\* A planet without decorators whose configuration makes report() fail at
\* its first or its second location: the PeriodicController and report().
InitFault ==
  /\ InitPlanet(FaultyConfigs(2..MaxPeriod))
  /\ IdleArrange
  /\ IdleFactory
  /\ IdleLoader
  /\ InitReader
  /\ IdleCalls
  /\ IdleRest

SpecReport == InitFault /\ [][NextSeason]_vars


(***************************************************************************)
(* Properties                                                              *)
(***************************************************************************)
\* The ids of the locations the current (or the last) report() call has
\* processed.
Processed == {getLocations(_locations)[i] : i \in 1..location_index}

halfPeriod == GetPeriod(planet_data) \div 2

\* The summer zones after k swaps of the initial assignment.
SummerAfter(k) ==
  IF k % 2 = 0 THEN InitSummerZones(planet_data) ELSE InitWinterZones(planet_data)
WinterAfter(k) ==
  IF k % 2 = 0 THEN InitWinterZones(planet_data) ELSE InitSummerZones(planet_data)

\* C1: at every instant a reader can read them (no reader takes the planet's
\* lock, so at every instant), the summer and the winter zones are disjoint
\* and together are all zones of the planet.
C1_SeasonsPartition ==
  /\ Range(_summer_zones) \cap Range(_winter_zones) = {}
  /\ Range(_summer_zones) \cup Range(_winter_zones) = Range(AllZones(planet_data))

\* C2: when a report() call has processed every location, the summer and
\* winter labels it stored all follow from one season assignment, the one
\* before or the one after a flip.
C2_ReportOneAssignment ==
  (rep_pc = "idle" /\ reports > 0 /\ location_index = Len(_locations)) =>
    \E k \in {0, 1} :
      \A id \in DOMAIN _locations :
        _locations[id].season # "Rain" =>
          \E zone \in GetZone(_locations[id], planet_data) :
            (_locations[id].season = "Sunny") <=> (zone \in Range(SummerAfter(k)))

\* A region list is empty or is all of what one loop iteration sampled.
WholeSnapshot(list) ==
  \/ list = <<>>
  \/ \A i \in DOMAIN list : list[i].tick = list[1].tick /\ list[i].of = Len(list)

\* C3: what getPlanetData reads and returns while the RainController
\* refreshes is empty or one complete region list of a single tick.
C3_SnapshotWhole ==
  /\ WholeSnapshot(gpd_planet_data.list)
  /\ WholeSnapshot(decorated_locations)

\* C3 witness: getPlanetData returned the two regions of the first tick
\* while the second tick is filling its list.
C3_Witness ==
  /\ rep_pc = "locations"
  /\ Len(decorated_locations) = 2
  /\ decorated_locations[1].tick = 1
  /\ r_pc = "fill"
  /\ rain_ticks = 2
  /\ Len(new_rain_locations) = 1

\* C4: with a half period of at least 1, the clock stays in
\* [0, halfPeriod) and equals the tick count modulo halfPeriod, a swap is
\* under way only on a positive multiple of halfPeriod, and after n ticks
\* the zones have been swapped n div halfPeriod times, so that every
\* 2 * halfPeriod ticks the assignment is the initial one.
C4_ClockAndFlips ==
  (halfPeriod >= 1 /\ p_pc \in {"loop", "flip", "flip_summer", "flip_winter"}) =>
    /\ _planet_season_clock[1] \in 0..(halfPeriod - 1)
    /\ _planet_season_clock[1] = ticks % halfPeriod
    /\ p_pc # "loop" => (ticks > 0 /\ ticks % halfPeriod = 0)
    /\ p_pc = "loop" =>
         /\ _summer_zones = SummerAfter(ticks \div halfPeriod)
         /\ _winter_zones = WinterAfter(ticks \div halfPeriod)
    /\ p_pc = "flip" =>
         /\ _summer_zones = SummerAfter((ticks \div halfPeriod) - 1)
         /\ _winter_zones = WinterAfter((ticks \div halfPeriod) - 1)
    /\ (p_pc = "loop" /\ ticks % (2 * halfPeriod) = 0) =>
         /\ _summer_zones = InitSummerZones(planet_data)
         /\ _winter_zones = InitWinterZones(planet_data)

\* C4 witness: revolution period 4, two zones, and the fourth tick has
\* swapped the zones back.
C4_Witness ==
  /\ GetPeriod(planet_data) = 4
  /\ Len(planet_data.zones) = 2
  /\ ticks = 4
  /\ p_pc = "loop"
  /\ _summer_zones = InitSummerZones(planet_data)

\* The rectangle spanned by the two corners of a region contains the
\* location, edges included.
Covers(region, location) ==
  /\ Min({region[1].latitude, region[2].latitude}) <= location.latitude
  /\ location.latitude <= Max({region[1].latitude, region[2].latitude})
  /\ Min({region[1].longitude, region[2].longitude}) <= location.longitude
  /\ location.longitude <= Max({region[1].longitude, region[2].longitude})

\* C5: each step of report() over a location labels it Rain if a region
\* of the snapshot the call read covers it, and otherwise Sunny or Snow as
\* its zone is or is not among the summer zones.
C5_SeasonPriority ==
  [][location_index' = location_index + 1 =>
       LET id == getLocations(_locations)[location_index + 1]
           location == _locations[id]
           label == _locations'[id].season
       IN IF \E i \in DOMAIN decorated_locations :
                Covers(decorated_locations[i].region, location)
            THEN label = "Rain"
            ELSE label \in {IF zone \in Range(_summer_zones) THEN "Sunny" ELSE "Snow" :
                              zone \in GetZone(location, planet_data)}]_vars

\* C5 witness: one call labelled a location that a region covers Rain
\* although its zone is a summer zone, and a location outside all regions,
\* in a winter zone, Snow.
C5_Witness ==
  /\ rep_pc = "locations"
  /\ location_index = 2
  /\ \E i \in DOMAIN decorated_locations :
       Covers(decorated_locations[i].region, _locations[1])
  /\ GetZone(_locations[1], planet_data) \subseteq Range(_summer_zones)
  /\ _locations[1].season = "Rain"
  /\ _locations[2].season = "Snow"

\* The location lies on the given edge of the region, its other coordinate
\* within the region's bounds.
OnLatitudeEdge(region, location, corner) ==
  /\ location.latitude = region[corner].latitude
  /\ region[1].longitude <= location.longitude
  /\ location.longitude <= region[2].longitude
OnLongitudeEdge(region, location, corner) ==
  /\ location.longitude = region[corner].longitude
  /\ region[1].latitude <= location.latitude
  /\ location.latitude <= region[2].latitude

\* C6: a location report() has processed that lies on the lower or upper
\* latitude edge or on the lower or upper longitude edge of a region of the
\* call's snapshot is labelled Rain.
C6_EdgesInclusive ==
  \A id \in Processed :
    \A i \in DOMAIN decorated_locations :
      \A corner \in {1, 2} :
        (\/ OnLatitudeEdge(decorated_locations[i].region, _locations[id], corner)
         \/ OnLongitudeEdge(decorated_locations[i].region, _locations[id], corner))
        => _locations[id].season = "Rain"

\* C6 witness: the only region of the snapshot has the processed location
\* on its lower latitude edge, below its upper one, and on both longitude
\* edges, and the location is labelled Rain.
C6_Witness ==
  /\ 1 \in Processed
  /\ Len(decorated_locations) = 1
  /\ decorated_locations[1].region[1].latitude = _locations[1].latitude
  /\ decorated_locations[1].region[2].latitude > _locations[1].latitude
  /\ decorated_locations[1].region[1].longitude = _locations[1].longitude
  /\ decorated_locations[1].region[2].longitude = _locations[1].longitude
  /\ _locations[1].season = "Rain"

\* C7: every location a report() call has processed carries one of the
\* labels Sunny, Snow and Rain, whatever flips and refreshes interleave;
\* the setter stores any other season string unchanged.
C7_SeasonLabels ==
  /\ \A id \in Processed : _locations[id].season \in {"Sunny", "Snow", "Rain"}
  /\ setSeason("Windy") = "Windy"

\* C7 witness: a call finished after a season flip and a rain refresh and
\* stored a Rain and a Sunny label.
C7_Witness ==
  /\ rep_pc = "idle"
  /\ reports = 1
  /\ ticks >= 1
  /\ rain_ticks >= 1
  /\ _locations[1].season = "Rain"
  /\ _locations[2].season = "Sunny"

\* The input point with the smaller latitude, on a tie the one with the
\* smaller longitude, and the other input point.
LowerInput(a, b) ==
  IF a.latitude < b.latitude \/ (a.latitude = b.latitude /\ a.longitude <= b.longitude)
    THEN a ELSE b
UpperInput(a, b) == IF LowerInput(a, b) = a THEN b ELSE a

\* C8 as stated: arrange returns the input point with the smaller latitude
\* (tie: smaller longitude) as lower-left corner and the other input point
\* as upper-right corner.
C8_CornersAreInputs ==
  arr_pc = "done" =>
    arr_result = <<LowerInput(arr_a, arr_b), UpperInput(arr_a, arr_b)>>

\* C8 as amended: arrange returns the corner with the smaller latitude and
\* the smaller longitude of the inputs and the corner with the larger
\* latitude and the larger longitude; these are the input points themselves
\* when the point with the smaller latitude (tie: smaller longitude) has a
\* longitude not above the other's; (25,100) and (15,-40) give (15,-40) and
\* (25,100).
C8_BoundingCorners ==
  /\ arr_pc = "done" =>
       /\ arr_result[1] = Point(Min({arr_a.latitude, arr_b.latitude}),
                                Min({arr_a.longitude, arr_b.longitude}))
       /\ arr_result[2] = Point(Max({arr_a.latitude, arr_b.latitude}),
                                Max({arr_a.longitude, arr_b.longitude}))
       /\ LowerInput(arr_a, arr_b).longitude <= UpperInput(arr_a, arr_b).longitude
            => arr_result = <<LowerInput(arr_a, arr_b), UpperInput(arr_a, arr_b)>>
  /\ arrange(Point(25, 100), Point(15, -40)) = <<Point(15, -40), Point(25, 100)>>

\* C8 witness: arrange was applied to a first point below and to the right
\* of the second.
C8_Witness ==
  /\ arr_pc = "done"
  /\ arr_a.latitude < arr_b.latitude
  /\ arr_b.longitude < arr_a.longitude

\* C9: arrange(A, B) and arrange(B, A) are the same pair of corners, and
\* the first corner's latitude and longitude are at most the second's.
C9_ArrangeSymmetric ==
  arr_pc = "done" =>
    /\ arr_result = arr_swapped
    /\ arr_result[1].latitude <= arr_result[2].latitude
    /\ arr_result[1].longitude <= arr_result[2].longitude

\* C9 witness: arrange was applied to a first point above and to the right
\* of the second.
C9_Witness ==
  /\ arr_pc = "done"
  /\ arr_a.latitude > arr_b.latitude
  /\ arr_a.longitude > arr_b.longitude

\* The chain of a PeriodicController wrapped by one RainController per
\* "rain" entry of the first n decorators, other entries skipped.
RECURSIVE ExpectedChain(_, _)
ExpectedChain(decorators, n) ==
  IF n = 0 THEN [class |-> "PeriodicController"]
  ELSE IF decorators[n] = "rain"
    THEN [class |-> "RainController",
          _base_controller |-> ExpectedChain(decorators, n - 1)]
  ELSE ExpectedChain(decorators, n - 1)

\* C10: createWeatherController('periodic', decorators) returns the
\* PeriodicController wrapped by one RainController per 'rain' entry, an
\* unrecognized entry leaving the chain built so far intact.
C10_UnknownDecoratorSkipped ==
  (f_pc = "returned" /\ f_base_weather = "periodic") =>
    weather_controller =
      ExpectedChain(f_weather_decorators, Len(f_weather_decorators))

\* C11: for a base weather createWeatherController does not recognize, the
\* call returns no controller whatever the decorator list is, also one that
\* contains "rain"; it never returns a decorator wrapping a missing base.
C11_UnknownBaseNoController ==
  (f_pc = "returned" /\ f_base_weather # "periodic") =>
    weather_controller = NoController

\* C12: the planet createPlanet returned for an entry is a
\* PeriodicWeatherPlanet of that entry when its base_weather is "periodic"
\* and no planet when base_weather is anything else or is missing; the call
\* raises nothing, getAllPlanets goes on to createWeatherController.
C12_CreatePlanet ==
  gl_pc = "createWeatherController" =>
    LET entry == all_data_planets[gl_index + 1]
    IN IF entry.base_weather = "periodic"
         THEN gl_planet = [class |-> "PeriodicWeatherPlanet", planet_data |-> entry]
         ELSE gl_planet = NoPlanet

\* C12 witness: createPlanet has returned no planet for an entry with an
\* unrecognized base_weather after a PeriodicWeatherPlanet was yielded.
C12_Witness ==
  /\ gl_pc = "createWeatherController"
  /\ gl_index = 1
  /\ yielded = <<1>>
  /\ all_data_planets[2].base_weather = "hurricane"
  /\ gl_planet = NoPlanet

\* The identifiers of an entry are all recognized.
Recognized(entry) ==
  /\ entry.base_weather = "periodic"
  /\ \A i \in DOMAIN entry.weather_decorators : entry.weather_decorators[i] = "rain"

\* C13: when getAllPlanets has ended over entries that all name a base
\* weather, with or without an exception, the planet of every entry whose
\* identifiers are all recognized has been yielded and its chain started,
\* whatever unrecognized identifiers the entries before it have.
C13_LoadContinues ==
  (/\ gl_pc \in {"raised", "done"}
   /\ \A i \in DOMAIN all_data_planets : all_data_planets[i].base_weather # None)
  =>
    \A i \in DOMAIN all_data_planets :
      Recognized(all_data_planets[i]) =>
        \E k \in DOMAIN yielded :
          /\ yielded[k] = i
          /\ _WEATHER_CONTROLLERS[k].class # "None"

\* C14: while the revolution period the data reader serves for the bound
\* planet is zero or missing, the PeriodicController performs no tick and no
\* season flip: a step of its loop ends in an error instead.
C14_BadPeriodReported ==
  [][(planet_data.revolution_period \in {Unset, <<0>>} /\ p_pc = "loop") =>
       /\ ticks' = ticks
       /\ _planet_season_clock' = _planet_season_clock
       /\ p_pc' \in {"loop", "crashed"}]_vars

\* C17: a query made through GetAllData after the DataReader thread has
\* ended on a read error raises the failure to its caller; it does not
\* return the data cached before the failure.
C17_FailurePropagates ==
  [][(dr_pc = "raised" /\ queries' = queries + 1) =>
       q_result'.status = "raised"]_vars

\* The position of the location a report() call is at, the one a failing
\* call stopped at.
FailedAt == location_index + 1

\* C15: a report() step touches the location it is at and no other, so
\* when the call is aborted at its k-th location the locations after it are
\* as they were; the k-1 locations before it keep the temperature,
\* pressure, humidity and season the call wrote; and the aborting step
\* changes the position of no controller thread.
C15_AbortKeepsWritten ==
  /\ [](rep_pc = "raised" =>
          \A id \in Processed :
            /\ _locations[id].temperature # Unset
            /\ _locations[id].pressure # Unset
            /\ _locations[id].humidity # Unset
            /\ _locations[id].season \in {"Sunny", "Snow", "Rain"})
  /\ [][/\ \A id \in DOMAIN _locations :
            \/ _locations'[id] = _locations[id]
            \/ /\ rep_pc = "locations"
               /\ location_index < Len(_locations)
               /\ id = getLocations(_locations)[FailedAt]
        /\ (rep_pc = "locations" /\ rep_pc' = "raised") =>
             (p_pc' = p_pc /\ r_pc' = r_pc)]_vars

\* C15 witness: the call was aborted at its second location, whose zone
\* cannot be resolved, after the first location was written, while the
\* PeriodicController is in its loop and has ticked.
C15_Witness ==
  /\ rep_pc = "raised"
  /\ FailedAt = 2
  /\ GetZone(_locations[getLocations(_locations)[2]], planet_data) = {}
  /\ _locations[getLocations(_locations)[1]].season = "Snow"
  /\ _locations[getLocations(_locations)[2]].season = None
  /\ p_pc = "loop"
  /\ ticks >= 1

\* C16: a controller thread never ends on an error of one of its ticks: a
\* tick that raises (no rain-eligible zone, a half period of zero) is
\* followed by the next tick.
C16_TickErrorSurvived ==
  /\ p_pc # "crashed"
  /\ r_pc # "crashed"

\* Every thread of the chain has left its run().
WorkersStopped ==
  /\ p_pc \in {"exited", "crashed"}
  /\ r_pc \in {"absent", "exited", "crashed"}

\* C18: shutdown() of the outermost controller has cleared the flag of
\* every controller of the chain when it returns; a thread whose flag is
\* cleared begins no loop iteration; and once shutdown() has returned and
\* the chain is started, in either order, every thread of the chain, the
\* wrapped controller the decorator starts included, eventually leaves its
\* run().
C18_ShutdownStopsWorkers ==
  /\ [](cl_pc = "done" =>
          /\ ~p_should_run
          /\ r_pc # "absent" => ~r_should_run)
  /\ [][/\ ~p_should_run => ticks' = ticks
        /\ ~r_should_run => rain_ticks' = rain_ticks]_vars
  /\ (cl_pc = "done" /\ rep_pc = "idle") ~> WorkersStopped

\* C18 witness: shutdown() returned before the decorator's thread started
\* the wrapped controller, and both threads have left run(), the wrapped
\* one without a tick.
C18_Witness ==
  /\ cl_pc = "done"
  /\ planet_data.weather_decorators = <<"rain">>
  /\ p_pc = "exited"
  /\ r_pc = "exited"
  /\ ticks = 0
  /\ rain_ticks = 0

\* The zones whose latitude range, closed at both ends, contains the
\* latitude.
ZonesContaining(zones, latitude) ==
  {z \in DOMAIN zones :
     /\ Min({zones[z][1], zones[z][2]}) <= latitude
     /\ latitude <= Max({zones[z][1], zones[z][2]})}

\* C19: GetZone returns a zone whose range contains the location's latitude
\* whenever the planet has one, north and south of the equator alike, and
\* raises only when no zone's range contains the latitude.
C19_ZoneContainsLatitude ==
  gz_pc = "done" =>
    IF ZonesContaining(gz_zones, gz_latitude) = {}
      THEN gz_result.raised
      ELSE /\ ~gz_result.raised
           /\ gz_result.zone \in ZonesContaining(gz_zones, gz_latitude)

\* C20: an unset temperature is rendered as 'None'; a set one, zero
\* included, with exactly one fraction digit, as its value rounded to the
\* nearest tenth, with '+' in front when the rounded value is above zero and
\* '-' when it is below.
C20_TemperatureString ==
  t_pc = "done" =>
    IF t_temperature = Unset THEN t_result = NoneString
    ELSE LET units == t_temperature[1].units
         IN /\ t_result.text = "number"
            /\ t_result.digits = 1
            /\ Abs(t_result.tenths * TemperatureScale - Abs(units) * 10)
                 <= TemperatureScale \div 2
            /\ (units > 0 /\ t_result.tenths > 0) => t_result.sign = "+"
            /\ (units < 0 /\ t_result.tenths > 0) => t_result.sign = "-"

\* C21: when addPlanet on the outermost controller has returned, the planet
\* is in the planet set of every controller of the chain and the planet's
\* decorator list holds every decorator of the chain exactly once; the
\* started PeriodicController has a clock of 0 for the planet.
C21_PlanetRegistered ==
  ap_pc \in {"returned", "started"} =>
    /\ \A level \in DOMAIN ap_chain : "planet" \in ap_planets[level]
    /\ \A level \in DOMAIN ap_chain :
         ap_chain[level] = "RainController" =>
           Cardinality({i \in DOMAIN ap_decorators : ap_decorators[i] = level}) = 1
    /\ Len(ap_decorators) = Len(ap_chain) - 1
    /\ ap_pc = "started" =>
         ("planet" \in DOMAIN ap_clock /\ ap_clock["planet"] = 0)

\* C21 witness: addPlanet returned on a chain of two decorators around the
\* base, and the base has started.
C21_Witness ==
  /\ ap_pc = "started"
  /\ ap_chain = <<"RainController", "RainController", "PeriodicController">>
  /\ ap_decorators = <<2, 1>>

\* C22: once the outermost controller is started, every worker of the chain
\* is eventually started; a worker enters run() only from the unstarted
\* state and never becomes unstarted again, so it is started once; and the
\* decorator is past line 146 only when the wrapped controller has been
\* started, so no rain tick and no snapshot precedes the base's start.
C22_ChainStarted ==
  /\ [](r_pc \notin {"absent", "unstarted", "run"} => p_pc # "unstarted")
  /\ []((rain_ticks > 0 \/ _planet_rain_locations.state # "missing") =>
          p_pc # "unstarted")
  /\ [][/\ (p_pc' = "run" /\ p_pc # "run") => p_pc = "unstarted"
        /\ (r_pc' = "run" /\ r_pc # "run") => r_pc = "unstarted"
        /\ p_pc # "unstarted" => p_pc' # "unstarted"
        /\ r_pc # "unstarted" => r_pc' # "unstarted"]_vars
  /\ (rep_pc # "unstarted") ~> (p_pc # "unstarted" /\ r_pc # "unstarted")

\* C22 witness: a decorated chain whose RainController published a snapshot
\* while the base worker it started is running its loop.
C22_Witness ==
  /\ planet_data.weather_decorators = <<"rain">>
  /\ _planet_rain_locations.state = "set"
  /\ p_pc = "loop"
  /\ ticks > 0

\* The zones of the planet that are not rain-eligible, and the latitudes a
\* region covers.
DryZones == DOMAIN planet_data.zones \ GetRainZones(planet_data)
RegionLatitudes(region) == region[1].latitude..region[2].latitude

\* C23: every region of a published snapshot covers no latitude of a zone
\* that is not rain-eligible, and a published snapshot holds between 1 and
\* the largest sampled number of regions.
C23_RegionsInRainZones ==
  _planet_rain_locations.state = "set" =>
    /\ \A i \in DOMAIN _planet_rain_locations.list :
         \A z \in DryZones :
           RegionLatitudes(_planet_rain_locations.list[i].region)
             \cap (Min(Range(planet_data.zones[z]))..Max(Range(planet_data.zones[z]))) = {}
    /\ Len(_planet_rain_locations.list) \in 1..MaxRainRegions

\* C24: a later getPlanetData call made before the next refresh returns what
\* the first call returned, whatever the caller did to the list it was
\* given in between; and a call made before anything was published returns
\* an empty collection.
C24_DefensiveCopy ==
  /\ (cp_pc = "later" /\ cp_later_object = cp_object) => cp_later = cp_first
  /\ (cp_pc # "idle" /\ cp_object = Unset) => cp_first = <<>>

\* C25: while report() iterates over the locations the region list it read
\* at its start stays as it is, whatever the RainController publishes
\* meanwhile, and each location is labelled Rain exactly when a region of
\* that list covers it.
C25_OneSnapshotPerReport ==
  [][(rep_pc = "locations" /\ rep_pc' = "locations") =>
       /\ decorated_locations' = decorated_locations
       /\ location_index' = location_index + 1 =>
            LET id == getLocations(_locations)[location_index + 1]
            IN (_locations'[id].season = "Rain") <=>
                 \E i \in DOMAIN decorated_locations :
                   Covers(decorated_locations[i].region, _locations[id])]_vars

\* C25 witness: the call read the snapshot of the first tick, the second
\* tick was published before the call ended, and a location is labelled
\* Rain by the first snapshot although no region of the published one
\* covers it.
C25_Witness ==
  /\ rep_pc = "locations"
  /\ location_index >= 1
  /\ decorated_locations # <<>>
  /\ decorated_locations[1].tick = 1
  /\ _planet_rain_locations.list[1].tick = 2
  /\ _locations[1].season = "Rain"
  /\ ~ \E i \in DOMAIN _planet_rain_locations.list :
         Covers(_planet_rain_locations.list[i].region, _locations[1])

\* C26: data_reader.shutdown() returns from every state of the DataReader
\* thread: while the call waits on _DATA_READER_SHUTDOWN the event is set,
\* or the thread is alive and will set it on its next iteration; a call
\* that waits on a cleared event of a thread that has ended never returns,
\* and close() never reaches the controllers.
C26_ShutdownReturns ==
  sd_pc = "wait" => (_DATA_READER_SHUTDOWN \/ dr_pc = "sleep")

\* C27: however the first GetAllData calls of the threads interleave, at
\* most one DataReader is created and started, and a call has returned (or
\* is past the with block) only when the DataReader has completed its first
\* load attempt.
C27_OneReaderLoadedFirst ==
  /\ readers_created <= 1
  /\ \A caller \in 1..MaxCallers :
       gad_pc[caller] \in {"read", "returned"} =>
         (_DATA_READER_STARTED /\ readers_created = 1)

\* C27 witness: both callers returned, the one that found the lock taken
\* having waited for the creator, and one DataReader exists.
C27_Witness ==
  /\ \A caller \in 1..MaxCallers : gad_pc[caller] = "returned"
  /\ readers_created = 1
  /\ dr_pc \in {"sleep", "raised"}

\* C28: a step of report() that aborts the call while it processes a
\* location leaves every location as it was: none of the temperature,
\* pressure, humidity and season of the location under way is modified.
C28_AbortAllOrNothing ==
  [][(rep_pc = "locations" /\ rep_pc' = "raised") =>
       _locations' = _locations]_vars

====
